---- MODULE Spec2Model ----
(***************************************************************************)
(* Model of the os3 task manager (src/os3/src/task/mod.rs, task.rs): the   *)
(* TASK_MANAGER table, round-robin scheduling, the exclusive-access guard  *)
(* around TaskManagerInner, syscall accounting and get_current_task_info.  *)
(* One thread of control exists (single core, cooperative switching); pc   *)
(* is its position inside the kernel entry point it is executing.          *)
(***************************************************************************)
EXTENDS Integers, Sequences, FiniteSets, TLC

\* ------------------------------------------------------------------ bounds
\* capacity of the task table (crate::config::MAX_APP_NUM, scaled down)
MAX_APP_NUM == 3
\* number of optional events explored in one run: calls of
\* suspend_current_and_run_next, calls of update_current_syscall_times and
\* timer advances (exits and get_current_task_info calls are not limited)
MaxEvents == 3

\* --------------------------------------------------------------- constants
SYSCALL_WRITE == 64
SYSCALL_EXIT == 93
SYSCALL_YIELD == 124
SYSCALL_GET_TIME == 169
SYSCALL_TASK_INFO == 410
MAX_SYSCALL_NUM == 500
\* length of TaskControlBlock::syscall_times
TRACKED_NUM == 5

\* one timer advance, in microseconds (half a millisecond, so that the
\* division by 1000 in get_time_us()/1000 is seen to truncate)
TickUs == 1000 \div 2
Slots == 0 .. (MAX_APP_NUM - 1)
SmallRange == 0 .. (TRACKED_NUM - 1)
SyscallSpace == 0 .. (MAX_SYSCALL_NUM - 1)
TrackedIds == {SYSCALL_WRITE, SYSCALL_EXIT, SYSCALL_YIELD, SYSCALL_GET_TIME, SYSCALL_TASK_INFO}
\* syscall ids the dispatcher may pass that are not tracked
UntrackedIds == {SYSCALL_WRITE - 1, MAX_SYSCALL_NUM - 1}
\* Option<usize>::None
None == -1
\* the identity of the boot stack (no task), and of the placeholder context
Boot == -1
\* marker for the todo!() arm of the two mapping functions
Todo == -1
\* first_run_us of a slot that was never marked Running
NotRun == -1

VARIABLES
    num_app,              \* TaskManager.num_app
    task_status,          \* tasks[i].task_status
    task_cx,              \* tasks[i].task_cx: where a switch into it resumes
    syscall_times,        \* tasks[i].syscall_times[0..4]
    start_time,           \* tasks[i].start_time (milliseconds)
    current_task,         \* TaskManagerInner.current_task
    borrowed,             \* the UPSafeCell guard is held
    pc,                   \* position of the thread of control
    cpu,                  \* whose kernel stack the thread of control runs on
    caller,               \* where the entry point in progress returns to
    next,                 \* run_next_task: result of find_next_task
    current_task_cx_ptr,  \* run_next_task: slot __switch saves into
    next_task_cx_ptr,     \* run_*_task: slot __switch restores from
    syscall_id,           \* update_syscall_num: its argument
    ti,                   \* get_current_task_info: the TaskInfo written
    ret,                  \* get_current_task_info: the isize returned
    ticks,                \* timer advances so far
    run_seq,              \* history: tasks marked Running, in order
    calls,                \* history: <<"suspend" or "exit", calling task>>, in order
    recorded,             \* history: update_current_syscall_times calls per task, id
    first_run_us          \* history: the timer (us) when a slot was first marked
                          \* Running, NotRun before

vars == <<num_app, task_status, task_cx, syscall_times, start_time, current_task,
          borrowed, pc, cpu, caller, next, current_task_cx_ptr, next_task_cx_ptr,
          syscall_id, ti, ret, ticks, run_seq, calls, recorded, first_run_us>>

table == <<task_status, task_cx, syscall_times, start_time, current_task>>
locals == <<next, current_task_cx_ptr, next_task_cx_ptr, syscall_id, ti, ret>>
history == <<run_seq, calls, recorded, first_run_us>>

\* ------------------------------------------------------------------ types
TaskStatus == {"UnInit", "Ready", "Running", "Exited"}

\* TaskContext::zero_init(): ra = 0, sp = 0
zero_init == [at |-> "zero", stack |-> Boot, call |-> 0]
\* TaskContext::goto_restore(init_app_cx(i)): resumes in __restore on task
\* i's kernel stack and enters the application for the first time
goto_restore(i) == [at |-> "goto_restore", stack |-> i, call |-> 0]

\* the TaskInfo buffer before get_current_task_info has written it
NoInfo == [status |-> "UnInit", syscall_times |-> <<>>, time |-> 0]
\* the count a TaskInfo holds for syscall id k of the full space
Count(info, k) == IF k \in DOMAIN info.syscall_times THEN info.syscall_times[k] ELSE 0

\* ------------------------------------------------------------------ timer
get_time_us == ticks * TickUs
\* get_time_us()/1000
get_time_ms == get_time_us \div 1000

\* ------------------------------------------------ exclusive-access guard
\* UPSafeCell::exclusive_access: borrow_mut, which panics when already held
exclusive_access(to) ==
    IF borrowed
    THEN /\ pc' = "borrow_panic"
         /\ UNCHANGED borrowed
    ELSE /\ pc' = to
         /\ borrowed' = TRUE

\* ---------------------------------------------------------------- mappings
\* variant: indices in the order of the syscall numbers (EXIT before YIELD)
map_syscall_to_small_range_numeric(id) ==
    CASE id = SYSCALL_WRITE -> 0
      [] id = SYSCALL_EXIT -> 1
      [] id = SYSCALL_YIELD -> 2
      [] id = SYSCALL_GET_TIME -> 3
      [] id = SYSCALL_TASK_INFO -> 4
      [] OTHER -> Todo

map_syscall_to_small_range(id) ==
    CASE id = SYSCALL_WRITE -> 0
      [] id = SYSCALL_YIELD -> 1
      [] id = SYSCALL_EXIT -> 2
      [] id = SYSCALL_GET_TIME -> 3
      [] id = SYSCALL_TASK_INFO -> 4
      [] OTHER -> Todo

\* variant: index 1 is EXIT and index 2 is YIELD
map_small_range_to_syscall_numeric(id) ==
    CASE id = 0 -> SYSCALL_WRITE
      [] id = 1 -> SYSCALL_EXIT
      [] id = 2 -> SYSCALL_YIELD
      [] id = 3 -> SYSCALL_GET_TIME
      [] id = 4 -> SYSCALL_TASK_INFO
      [] OTHER -> Todo

map_small_range_to_syscall(id) ==
    CASE id = 0 -> SYSCALL_WRITE
      [] id = 1 -> SYSCALL_YIELD
      [] id = 2 -> SYSCALL_EXIT
      [] id = 3 -> SYSCALL_GET_TIME
      [] id = 4 -> SYSCALL_TASK_INFO
      [] OTHER -> Todo

\* ------------------------------------------------------------ construction
\* get_num_app() is whatever the loader links: 0 up to the table's capacity
Init ==
    /\ num_app \in 0 .. MAX_APP_NUM
    /\ task_status = [i \in Slots |-> "UnInit"]
    /\ task_cx = [i \in Slots |-> zero_init]
    /\ syscall_times = [i \in Slots |-> [j \in SmallRange |-> 0]]
    /\ start_time = [i \in Slots |-> 0]
    /\ current_task = 0
    /\ borrowed = FALSE
    /\ pc = "start"
    /\ cpu = Boot
    /\ caller = "boot"
    /\ next = None
    /\ current_task_cx_ptr = Boot
    /\ next_task_cx_ptr = Boot
    /\ syscall_id = 0
    /\ ti = NoInfo
    /\ ret = 0
    /\ ticks = 0
    /\ run_seq = <<>>
    /\ calls = <<>>
    /\ recorded = [i \in Slots |-> [k \in TrackedIds |-> 0]]
    /\ first_run_us = [i \in Slots |-> NotRun]

\* lazy_static TASK_MANAGER: the first num_app slots get their initial
\* context and become Ready
TASK_MANAGER ==
    /\ pc = "start"
    /\ task_status' = [i \in Slots |-> IF i < num_app THEN "Ready" ELSE "UnInit"]
    /\ task_cx' = [i \in Slots |-> IF i < num_app THEN goto_restore(i) ELSE zero_init]
    /\ pc' = "boot"
    /\ UNCHANGED <<num_app, syscall_times, start_time, current_task, borrowed, cpu,
                   caller, locals, ticks, history>>

\* suspend calls, recorded syscalls and timer advances so far
Yields == Cardinality({k \in 1 .. Len(calls) : calls[k][1] = "suspend"})

Records == LET RECURSIVE Sum(_)
               Sum(S) == IF S = {} THEN 0
                         ELSE LET x == CHOOSE y \in S : TRUE
                              IN recorded[x[1]][x[2]] + Sum(S \ {x})
           IN Sum(Slots \X TrackedIds)

Events == Yields + Records + ticks

\* the timer advances; an advance while the kernel is inside an entry point
\* is seen by the code exactly as one just before the entry
Tick ==
    /\ pc \in {"boot", "user"}
    /\ Events < MaxEvents
    /\ ticks' = ticks + 1
    /\ UNCHANGED <<num_app, table, borrowed, pc, cpu, caller, locals, history>>

\* ------------------------------------------------------- context switch
\* __switch(save, restore): stores the resumable state of the caller in
\* slot `save` (the placeholder when save = Boot) and continues where the
\* context in slot `restore` was captured; `at` names the caller's place
\* and `call` the suspend / exit call (its number in calls) it is inside.
\* A context captured inside suspend_current_and_run_next returns through it
\* to the application; one captured inside exit_current_and_run_next would
\* return into the exit path ("exit_returned"); one captured by
\* run_first_task would return into it and reach its panic
\* ("rft_unreachable"); a zeroed context (ra = 0, sp = 0) cannot be resumed
\* and the system stops ("fault").
switch(save, restore, at) ==
    LET saved == [at |-> at, stack |-> cpu, call |-> Len(calls)]
        cxs == IF save = Boot THEN task_cx ELSE [task_cx EXCEPT ![save] = saved]
        target == cxs[restore]
    IN /\ task_cx' = cxs
       /\ cpu' = target.stack
       /\ pc' = CASE target.at = "goto_restore" -> "user"
                  [] target.at = "in_suspend" -> "user"
                  [] target.at = "in_exit" -> "exit_returned"
                  [] target.at = "boot" -> "rft_unreachable"
                  [] OTHER -> "fault"

\* ---------------------------------------------------------- run_first_task
run_first_task_access ==
    /\ pc = "boot"
    /\ exclusive_access("rft_held")
    /\ UNCHANGED <<num_app, table, cpu, caller, locals, ticks, history>>

\* variant: task0.start_time is not stamped
run_first_task_mark_nostamp ==
    /\ pc = "rft_held"
    /\ task_status' = [task_status EXCEPT ![0] = "Running"]
    /\ next_task_cx_ptr' = 0
    /\ borrowed' = FALSE
    /\ pc' = "rft_switch"
    /\ run_seq' = Append(run_seq, 0)
    /\ first_run_us' = [first_run_us EXCEPT ![0] = get_time_us]
    /\ UNCHANGED <<num_app, task_cx, syscall_times, start_time, current_task, cpu,
                   caller, next, current_task_cx_ptr, syscall_id, ti, ret, ticks, calls,
                   recorded>>

\* task0 is marked Running, its start_time is stamped, inner is dropped
run_first_task_mark ==
    /\ pc = "rft_held"
    /\ task_status' = [task_status EXCEPT ![0] = "Running"]
    /\ start_time' = [start_time EXCEPT ![0] = get_time_ms]
    /\ next_task_cx_ptr' = 0
    /\ borrowed' = FALSE
    /\ pc' = "rft_switch"
    /\ run_seq' = Append(run_seq, 0)
    /\ first_run_us' = [first_run_us EXCEPT ![0] = get_time_us]
    /\ UNCHANGED <<num_app, task_cx, syscall_times, current_task, cpu, caller, next,
                   current_task_cx_ptr, syscall_id, ti, ret, ticks, calls, recorded>>

\* variant: the outgoing state is saved into task0.task_cx itself, not into
\* the placeholder
run_first_task_switch_into_slot ==
    /\ pc = "rft_switch"
    /\ switch(next_task_cx_ptr, next_task_cx_ptr, "boot")
    /\ next_task_cx_ptr' = Boot
    /\ caller' = "user"
    /\ UNCHANGED <<num_app, task_status, syscall_times, start_time, current_task,
                   borrowed, next, current_task_cx_ptr, syscall_id, ti, ret, ticks,
                   history>>

run_first_task_switch ==
    /\ pc = "rft_switch"
    /\ switch(Boot, next_task_cx_ptr, "boot")
    /\ next_task_cx_ptr' = Boot
    /\ caller' = "user"
    /\ UNCHANGED <<num_app, task_status, syscall_times, start_time, current_task,
                   borrowed, next, current_task_cx_ptr, syscall_id, ti, ret, ticks,
                   history>>

\* ------------------------------------------- suspend / exit: the mark step
\* suspend_current_and_run_next is entered: mark_current_suspended borrows
suspend_current_and_run_next ==
    /\ pc = "user"
    /\ Events < MaxEvents
    /\ calls' = Append(calls, <<"suspend", cpu>>)
    /\ exclusive_access("mark_suspended_held")
    /\ UNCHANGED <<num_app, table, cpu, caller, locals, ticks, run_seq, recorded,
                   first_run_us>>

\* exit_current_and_run_next is entered: mark_current_exited borrows
exit_current_and_run_next ==
    /\ pc = "user"
    /\ calls' = Append(calls, <<"exit", cpu>>)
    /\ exclusive_access("mark_exited_held")
    /\ UNCHANGED <<num_app, table, cpu, caller, locals, ticks, run_seq, recorded,
                   first_run_us>>

\* variant: the status write is missing
mark_current_suspended_skip ==
    /\ pc = "mark_suspended_held"
    /\ borrowed' = FALSE
    /\ pc' = "find"
    /\ UNCHANGED <<num_app, table, cpu, caller, locals, ticks, history>>

mark_current_suspended ==
    /\ pc = "mark_suspended_held"
    /\ task_status' = [task_status EXCEPT ![current_task] = "Ready"]
    /\ borrowed' = FALSE
    /\ pc' = "find"
    /\ UNCHANGED <<num_app, task_cx, syscall_times, start_time, current_task, cpu,
                   caller, locals, ticks, history>>

mark_current_exited ==
    /\ pc = "mark_exited_held"
    /\ task_status' = [task_status EXCEPT ![current_task] = "Exited"]
    /\ borrowed' = FALSE
    /\ pc' = "find"
    /\ UNCHANGED <<num_app, task_cx, syscall_times, start_time, current_task, cpu,
                   caller, locals, ticks, history>>

\* ---------------------------------------------------------- find_next_task
\* (current+1 .. current+num_app+1).map(|id| id % num_app).find(Ready):
\* the scan from offset k on
RECURSIVE find_from(_, _, _, _)
find_from(status, current, n, k) ==
    IF k > n THEN None
    ELSE LET id == (current + k) % n
         IN IF status[id] = "Ready" THEN id ELSE find_from(status, current, n, k + 1)

\* variant: the scan accepts every slot that is not Running
RECURSIVE find_not_running_from(_, _, _, _)
find_not_running_from(status, current, n, k) ==
    IF k > n THEN None
    ELSE LET id == (current + k) % n
         IN IF status[id] # "Running" THEN id
            ELSE find_not_running_from(status, current, n, k + 1)

find_next_task_not_running(status, current, n) ==
    find_not_running_from(status, current, n, 1)

\* variant: the scan starts at the current slot (current .. current+num_app)
find_next_task_from_current(status, current, n) ==
    find_from(status, current, n, 0)

\* variant: the scan starts at slot 0 whatever the current slot is
find_next_task_linear(status, current, n) ==
    find_from(status, n - 1, n, 1)

\* variant: the scan runs downwards, current-1, current-2, ...
RECURSIVE find_backward_from(_, _, _, _)
find_backward_from(status, current, n, k) ==
    IF k > n THEN None
    ELSE LET id == (current + n * k - k) % n
         IN IF status[id] = "Ready" THEN id
            ELSE find_backward_from(status, current, n, k + 1)

find_next_task_backward(status, current, n) ==
    find_backward_from(status, current, n, 1)

\* variant: the scan stops before the current slot
\* (current+1 .. current+num_app)
RECURSIVE find_excl_from(_, _, _, _)
find_excl_from(status, current, n, k) ==
    IF k > n - 1 THEN None
    ELSE LET id == (current + k) % n
         IN IF status[id] = "Ready" THEN id ELSE find_excl_from(status, current, n, k + 1)

find_next_task_excl_current(status, current, n) ==
    find_excl_from(status, current, n, 1)

find_next_task(status, current, n) == find_from(status, current, n, 1)

find_next_task_access ==
    /\ pc = "find"
    /\ exclusive_access("find_held")
    /\ UNCHANGED <<num_app, table, cpu, caller, locals, ticks, history>>

find_next_task_scan ==
    /\ pc = "find_held"
    /\ next' = find_next_task(task_status, current_task, num_app)
    /\ borrowed' = FALSE
    /\ pc' = "run_next"
    /\ UNCHANGED <<num_app, table, cpu, caller, current_task_cx_ptr, next_task_cx_ptr,
                   syscall_id, ti, ret, ticks, history>>

\* ----------------------------------------------------------- run_next_task
\* Some(next): borrow inner again
run_next_task_access ==
    /\ pc = "run_next"
    /\ next # None
    /\ exclusive_access("rnt_held")
    /\ UNCHANGED <<num_app, table, cpu, caller, locals, ticks, history>>

\* variant: None is a silent no-op, the caller carries on
run_next_task_return ==
    /\ pc = "run_next"
    /\ next = None
    /\ pc' = "user"
    /\ UNCHANGED <<num_app, table, borrowed, cpu, caller, locals, ticks, history>>

\* None: panic!("All applications completed!")
run_next_task_panic ==
    /\ pc = "run_next"
    /\ next = None
    /\ pc' = "halt"
    /\ UNCHANGED <<num_app, table, borrowed, cpu, caller, locals, ticks, history>>

\* variant: drop(inner) is missing before the switch
run_next_task_mark_nodrop ==
    /\ pc = "rnt_held"
    /\ task_status' = [task_status EXCEPT ![next] = "Running"]
    /\ start_time' = [start_time EXCEPT
                        ![next] = IF start_time[next] = 0 THEN get_time_ms ELSE @]
    /\ current_task' = next
    /\ current_task_cx_ptr' = current_task
    /\ next_task_cx_ptr' = next
    /\ pc' = "rnt_switch"
    /\ run_seq' = Append(run_seq, next)
    /\ first_run_us' = [first_run_us EXCEPT
                          ![next] = IF @ = NotRun THEN get_time_us ELSE @]
    /\ UNCHANGED <<num_app, task_cx, syscall_times, borrowed, cpu, caller, next,
                   syscall_id, ti, ret, ticks, calls, recorded>>

\* variant: the outgoing slot is read after current_task has been set to next
run_next_task_mark_late_current ==
    /\ pc = "rnt_held"
    /\ task_status' = [task_status EXCEPT ![next] = "Running"]
    /\ start_time' = [start_time EXCEPT
                        ![next] = IF start_time[next] = 0 THEN get_time_ms ELSE @]
    /\ current_task' = next
    /\ current_task_cx_ptr' = next
    /\ next_task_cx_ptr' = next
    /\ borrowed' = FALSE
    /\ pc' = "rnt_switch"
    /\ run_seq' = Append(run_seq, next)
    /\ first_run_us' = [first_run_us EXCEPT
                          ![next] = IF @ = NotRun THEN get_time_us ELSE @]
    /\ UNCHANGED <<num_app, task_cx, syscall_times, cpu, caller, next, syscall_id, ti,
                   ret, ticks, calls, recorded>>

run_next_task_mark ==
    /\ pc = "rnt_held"
    /\ task_status' = [task_status EXCEPT ![next] = "Running"]
    /\ start_time' = [start_time EXCEPT
                        ![next] = IF start_time[next] = 0 THEN get_time_ms ELSE @]
    /\ current_task' = next
    /\ current_task_cx_ptr' = current_task
    /\ next_task_cx_ptr' = next
    /\ borrowed' = FALSE
    /\ pc' = "rnt_switch"
    /\ run_seq' = Append(run_seq, next)
    /\ first_run_us' = [first_run_us EXCEPT
                          ![next] = IF @ = NotRun THEN get_time_us ELSE @]
    /\ UNCHANGED <<num_app, task_cx, syscall_times, cpu, caller, next, syscall_id, ti,
                   ret, ticks, calls, recorded>>

\* the place the outgoing task is captured at: inside the wrapper it called
LastCall == calls[Len(calls)]

run_next_task_switch ==
    /\ pc = "rnt_switch"
    /\ switch(current_task_cx_ptr, next_task_cx_ptr,
              IF LastCall[1] = "suspend" THEN "in_suspend" ELSE "in_exit")
    /\ next' = None
    /\ current_task_cx_ptr' = Boot
    /\ next_task_cx_ptr' = Boot
    /\ UNCHANGED <<num_app, task_status, syscall_times, start_time, current_task,
                   borrowed, caller, syscall_id, ti, ret, ticks, history>>

\* ------------------------------------------------------ update_syscall_num
update_syscall_num_access ==
    /\ pc = "user"
    /\ Events < MaxEvents
    /\ \E id \in TrackedIds \cup UntrackedIds : syscall_id' = id
    /\ exclusive_access("usn_held")
    /\ UNCHANGED <<num_app, table, cpu, caller, next, current_task_cx_ptr,
                   next_task_cx_ptr, ti, ret, ticks, history>>

\* variant: an id outside the tracked set is ignored and the call returns
update_syscall_num_inc_ignore ==
    /\ pc = "usn_held"
    /\ LET i == map_syscall_to_small_range(syscall_id)
       IN IF i = Todo
          THEN /\ UNCHANGED <<syscall_times, recorded>>
          ELSE /\ syscall_times' = [syscall_times EXCEPT
                                      ![current_task][i] = @ + 1]
               /\ recorded' = [recorded EXCEPT ![cpu][syscall_id] = @ + 1]
    /\ borrowed' = FALSE
    /\ syscall_id' = 0
    /\ pc' = "user"
    /\ UNCHANGED <<num_app, task_status, task_cx, start_time, current_task, cpu,
                   caller, next, current_task_cx_ptr, next_task_cx_ptr, ti, ret, ticks,
                   run_seq, calls, first_run_us>>

update_syscall_num_inc ==
    /\ pc = "usn_held"
    /\ LET i == map_syscall_to_small_range(syscall_id)
       IN IF i = Todo
          THEN \* todo!(): the kernel panics with inner still borrowed
               /\ pc' = "abort"
               /\ UNCHANGED <<syscall_times, borrowed, syscall_id, recorded>>
          ELSE \* += 1 on a u32: MaxEvents keeps it far from 2^32
               /\ syscall_times' = [syscall_times EXCEPT
                                      ![current_task][i] = @ + 1]
               /\ recorded' = [recorded EXCEPT ![cpu][syscall_id] = @ + 1]
               /\ borrowed' = FALSE
               /\ syscall_id' = 0
               /\ pc' = "user"
    /\ UNCHANGED <<num_app, task_status, task_cx, start_time, current_task, cpu,
                   caller, next, current_task_cx_ptr, next_task_cx_ptr, ti, ret, ticks,
                   run_seq, calls, first_run_us>>

\* --------------------------------------------------- get_current_task_info
\* ti.syscall_times is kept as the entries written into the zeroed array
\* [0; MAX_SYSCALL_NUM]: an index outside its domain reads 0
zeroed == <<>>

\* for i in 0..5 { ti.syscall_times[map_small_range_to_syscall(i)] = cur[i] }
\* (a later write to the same index replaces the earlier one; every index
\* written is below MAX_SYSCALL_NUM)
RECURSIVE fill_syscall_times(_, _, _)
fill_syscall_times(out, cur, i) ==
    IF i >= TRACKED_NUM THEN out
    ELSE fill_syscall_times((map_small_range_to_syscall(i) :> cur[i]) @@ out,
                            cur, i + 1)

\* a public function: the syscall layer calls it for the running task, and
\* nothing keeps the kernel from calling it before run_first_task
get_current_task_info_access ==
    /\ pc \in {"boot", "user"}
    /\ caller' = pc
    /\ exclusive_access("gti_held")
    /\ UNCHANGED <<num_app, table, cpu, locals, ticks, history>>

\* variant: a task whose start_time is 0 is reported with 0 elapsed
get_current_task_info_fill_clamped ==
    /\ pc = "gti_held"
    /\ ti' = [status |-> task_status[current_task],
              syscall_times |-> fill_syscall_times(zeroed,
                                                   syscall_times[current_task], 0),
              time |-> IF start_time[current_task] = 0 THEN 0
                       ELSE get_time_ms - start_time[current_task]]
    /\ ret' = 0
    /\ borrowed' = FALSE
    /\ pc' = "gti_done"
    /\ UNCHANGED <<num_app, table, cpu, caller, next, current_task_cx_ptr,
                   next_task_cx_ptr, syscall_id, ticks, history>>

get_current_task_info_fill ==
    /\ pc = "gti_held"
    /\ ti' = [status |-> task_status[current_task],
              syscall_times |-> fill_syscall_times(zeroed,
                                                   syscall_times[current_task], 0),
              time |-> get_time_ms - start_time[current_task]]
    /\ ret' = 0
    /\ borrowed' = FALSE
    /\ pc' = "gti_done"
    /\ UNCHANGED <<num_app, table, cpu, caller, next, current_task_cx_ptr,
                   next_task_cx_ptr, syscall_id, ticks, history>>

\* the caller takes the record and carries on
get_current_task_info_return ==
    /\ pc = "gti_done"
    /\ pc' = caller
    /\ ti' = NoInfo
    /\ UNCHANGED <<num_app, table, borrowed, cpu, caller, next, current_task_cx_ptr,
                   next_task_cx_ptr, syscall_id, ret, ticks, history>>

\* ------------------------------------------------------------ specification
Next ==
    \/ TASK_MANAGER
    \/ Tick
    \/ run_first_task_access
    \/ run_first_task_mark
    \/ run_first_task_switch
    \/ suspend_current_and_run_next
    \/ exit_current_and_run_next
    \/ mark_current_suspended
    \/ mark_current_exited
    \/ find_next_task_access
    \/ find_next_task_scan
    \/ run_next_task_access
    \/ run_next_task_panic
    \/ run_next_task_mark
    \/ run_next_task_switch
    \/ update_syscall_num_access
    \/ update_syscall_num_inc
    \/ get_current_task_info_access
    \/ get_current_task_info_fill
    \/ get_current_task_info_return

Spec == Init /\ [][Next]_vars

\* find_next_task on its own: every table of statuses and every current
\* slot of a manager with at least one application
Init_Find ==
    /\ num_app \in 1 .. MAX_APP_NUM
    /\ task_status \in [Slots -> TaskStatus]
    /\ task_cx = [i \in Slots |-> IF i < num_app THEN goto_restore(i) ELSE zero_init]
    /\ syscall_times = [i \in Slots |-> [j \in SmallRange |-> 0]]
    /\ start_time = [i \in Slots |-> 0]
    /\ current_task \in 0 .. (num_app - 1)
    /\ borrowed = FALSE
    /\ pc = "find"
    /\ cpu = current_task
    /\ caller = "user"
    /\ next = None
    /\ current_task_cx_ptr = Boot
    /\ next_task_cx_ptr = Boot
    /\ syscall_id = 0
    /\ ti = NoInfo
    /\ ret = 0
    /\ ticks = 0
    /\ run_seq = <<>>
    /\ calls = <<>>
    /\ recorded = [i \in Slots |-> [k \in TrackedIds |-> 0]]
    /\ first_run_us = [i \in Slots |-> NotRun]

Next_Find ==
    \/ find_next_task_access
    \/ find_next_task_scan

SpecFind == Init_Find /\ [][Next_Find]_vars

\* the steps the kernel takes by itself once it has been entered: a handler
\* that has been called runs to its end, and rust_main goes on to
\* run_first_task. What an application calls, and when, is not among them
KernelStep ==
    \/ TASK_MANAGER
    \/ run_first_task_access
    \/ run_first_task_mark
    \/ run_first_task_switch
    \/ mark_current_suspended
    \/ mark_current_exited
    \/ find_next_task_access
    \/ find_next_task_scan
    \/ run_next_task_access
    \/ run_next_task_panic
    \/ run_next_task_mark
    \/ run_next_task_switch
    \/ update_syscall_num_inc
    \/ get_current_task_info_fill
    \/ get_current_task_info_return

\* the single hart executes kernel code without interruption (no preemption
\* inside the kernel), so an enabled kernel step is eventually taken
SpecLive == Init /\ [][Next]_vars /\ WF_vars(KernelStep)

\* ------------------------------------------------------------------ claims
InRange == 0 .. (num_app - 1)
RunningSlots == {i \in Slots : task_status[i] = "Running"}
AllExited == \A i \in InRange : task_status[i] = "Exited"
NoExitYet == \A k \in 1 .. Len(calls) : calls[k][1] # "exit"
\* cyclic distance from slot i forward to slot j
Dist(i, j) == (j - i + num_app) % num_app

\* a task has been launched and the kernel is not between the status mark
\* and the end of the dispatch of a reschedule, nor stopped
Quiescent ==
    /\ caller = "user"
    /\ pc \in {"user", "mark_suspended_held", "mark_exited_held", "usn_held",
               "gti_held", "gti_done"}

\* C1: after the launch and outside a reschedule, exactly one slot is Running
\* and current_task is its index
C1_ExactlyOneRunning ==
    Quiescent => /\ Cardinality(RunningSlots) = 1
                 /\ task_status[current_task] = "Running"

C1_Witness ==
    /\ pc = "user"
    /\ Len(run_seq) >= 3
    /\ \E i \in InRange : task_status[i] = "Exited"
    /\ \E i \in InRange : task_status[i] = "Ready"

\* C2: every change of a slot's status is UnInit->Ready at construction,
\* Ready->Running, Running->Ready or Running->Exited
C2_LegalTransitions ==
    [][\A i \in Slots :
         task_status'[i] # task_status[i] =>
           \/ pc = "start" /\ task_status[i] = "UnInit" /\ task_status'[i] = "Ready"
           \/ task_status[i] = "Ready" /\ task_status'[i] = "Running"
           \/ task_status[i] = "Running" /\ task_status'[i] = "Ready"
           \/ task_status[i] = "Running" /\ task_status'[i] = "Exited"]_vars

\* C3: an Exited slot stays Exited, is never the result of find_next_task
\* and never becomes current_task through a dispatch
C3_ExitedIsTerminal ==
    [][\A i \in Slots :
         task_status[i] = "Exited" =>
           /\ task_status'[i] = "Exited"
           /\ pc' \in {"run_next", "rnt_held", "rnt_switch"} => next' # i
           /\ current_task' = i => current_task = i]_vars

C3_Witness ==
    /\ pc = "user"
    /\ num_app >= 2
    /\ Len(run_seq) >= 3
    /\ task_status[(run_seq[Len(run_seq) - 1] + 1) % num_app] = "Exited"

\* C4: while no task has exited, the tasks run in the order 0, 1, ..., N-1,
\* 0, ...: each suspend hands over to the next slot in cyclic order
C4_RoundRobinOrder ==
    (num_app >= 1 /\ NoExitYet) =>
        \A k \in 1 .. Len(run_seq) : run_seq[k] = (k - 1) % num_app

C4_Witness ==
    /\ num_app >= 2
    /\ NoExitYet
    /\ Len(run_seq) = num_app + 1
    /\ pc = "user"

\* C5: find_next_task returns the first Ready slot of the cycle current+1,
\* ..., current+num_app (mod num_app), None exactly when no in-range slot is
\* Ready, never an out-of-range or non-Ready slot, and changes no state
ReadyOffsets == {k \in 1 .. num_app : task_status[(current_task + k) % num_app] = "Ready"}
FirstReady ==
    IF ReadyOffsets = {} THEN None
    ELSE (current_task + (CHOOSE k \in ReadyOffsets : \A m \in ReadyOffsets : k <= m))
           % num_app

C5_FindNextTask ==
    [][pc = "find_held" =>
         /\ next' = FirstReady
         /\ next' = None <=> (\A i \in InRange : task_status[i] # "Ready")
         /\ next' # None => (next' \in InRange /\ task_status[next'] = "Ready")
         /\ UNCHANGED <<num_app, table>>]_vars

C5_Witness ==
    /\ pc = "run_next"
    /\ next # None
    /\ next < current_task
    /\ \E i \in InRange : i > current_task /\ task_status[i] # "Ready"

\* C6: after an exit with another task Ready, the exiting task is Exited and
\* the Running, current task is the first Ready slot in cyclic order after
\* it; the three-task run suspend(0), exit(1), exit(2), exit(0) runs 0, 1, 2,
\* 0 and then halts
IsPrefix(s, t) == Len(s) <= Len(t) /\ \A k \in 1 .. Len(s) : s[k] = t[k]
Scenario == <<(<<"suspend", 0>>), (<<"exit", 1>>), (<<"exit", 2>>), (<<"exit", 0>>)>>

C6_ExitRunsNextReady ==
    /\ (pc = "user" /\ calls # <<>> /\ calls[Len(calls)][1] = "exit") =>
          LET i == run_seq[Len(run_seq) - 1]
              j == run_seq[Len(run_seq)]
          IN /\ calls[Len(calls)][2] = i
             /\ task_status[i] = "Exited"
             /\ current_task = j
             /\ RunningSlots = {j}
             /\ \A m \in InRange :
                  (Dist(i, m) >= 1 /\ Dist(i, m) < Dist(i, j)) => task_status[m] # "Ready"
    /\ (num_app = 3 /\ calls # <<>> /\ IsPrefix(calls, Scenario)) =>
          /\ IsPrefix(run_seq, <<0, 1, 2, 0>>)
          /\ (pc = "user" => Len(run_seq) = Len(calls) + 1)
          /\ (Len(calls) = 4 => pc \in {"mark_exited_held", "find", "find_held",
                                        "run_next", "halt"})
          /\ (Len(calls) = 4 /\ pc = "run_next" => next = None)

C6_Witness ==
    /\ num_app = 3
    /\ calls = Scenario
    /\ run_seq = <<0, 1, 2, 0>>
    /\ pc = "halt"

\* C7: with every in-range task Exited the scheduling attempt ends in the
\* halt: no status, context or current_task changes and no task runs; the
\* halt has no successor
C7_AllExitedHalts ==
    [][/\ pc # "halt"
       /\ (num_app >= 1 /\ AllExited) =>
             /\ UNCHANGED table
             /\ pc \in {"find", "find_held", "run_next"}
             /\ pc = "find" => pc' = "find_held"
             /\ pc = "find_held" => pc' = "run_next" /\ next' = None
             /\ pc = "run_next" => pc' = "halt"]_vars

C7_Witness ==
    /\ pc = "halt"
    /\ num_app >= 2
    /\ AllExited
    /\ RunningSlots = {}

\* C8: each recorded syscall of a tracked kind adds one to the counter of
\* that kind of the current running task and to nothing else, so a counter
\* equals the number of calls made for it; statuses, timestamps and
\* current_task are unchanged
C8_RecordSyscallFrame ==
    [][/\ \A t \in Slots : \A i \in SmallRange :
            syscall_times'[t][i] = recorded'[t][map_small_range_to_syscall(i)]
       /\ (pc = "usn_held" /\ pc' = "user") =>
            /\ cpu = current_task
            /\ task_status[current_task] = "Running"
            /\ \A t \in Slots : \A i \in SmallRange :
                 syscall_times'[t][i] =
                   syscall_times[t][i] +
                     (IF t = current_task /\ map_small_range_to_syscall(i) = syscall_id
                      THEN 1 ELSE 0)
            /\ UNCHANGED <<task_status, start_time, current_task, task_cx>>]_vars

C8_Witness ==
    /\ pc = "user"
    /\ \E t \in InRange : \E i \in SmallRange : syscall_times[t][i] = 2
    /\ \E t \in InRange : \E i \in SmallRange :
         t # current_task /\ syscall_times[t][i] = 1

\* C9: the guard is not held when __switch is invoked, in run_first_task and
\* in run_next_task, and no exclusive_access ever finds the guard held
C9_GuardReleasedBeforeSwitch ==
    /\ pc \in {"rft_switch", "rnt_switch", "user", "boot"} => ~borrowed
    /\ pc # "borrow_panic"

C9_Witness ==
    /\ borrowed
    /\ pc \in {"mark_suspended_held", "mark_exited_held", "usn_held", "gti_held"}
    /\ cpu \in Slots
    /\ task_cx[cpu].at = "in_suspend"

\* C10 as stated: elapsed is now minus start_time, and 0 when the current
\* task's start_time is still 0 (with at least one application)
C10_ElapsedZeroWhenNotRun ==
    [][(pc = "gti_held" /\ num_app >= 1) =>
         ti'.time = IF start_time[current_task] = 0 THEN 0
                    ELSE get_time_ms - start_time[current_task]]_vars

\* C10 amended: elapsed is the timer in whole milliseconds minus start_time;
\* with start_time still 0 it is the timer in whole milliseconds itself
C10_ElapsedIsNowMinusStart ==
    [][pc = "gti_held" =>
         /\ ti'.time = ((ticks * TickUs) \div 1000) - start_time[current_task]
         /\ ti'.time >= 0
         /\ start_time[current_task] = 0 =>
              (ti'.time * 1000 <= ticks * TickUs /\ ticks * TickUs < ti'.time * 1000 + 1000)]_vars

C10_Witness ==
    /\ pc = "gti_done"
    /\ num_app >= 1
    /\ caller = "boot"
    /\ run_seq = <<>>
    /\ start_time[current_task] = 0
    /\ ti.time = 1

\* C11: get_current_task_info right after the launch, with no timer
\* advance, no recorded syscall and no reschedule in between, reports
\* Running, 0 elapsed milliseconds and 0 for every syscall id of the full space
C11_InfoRightAfterLaunch ==
    [][(/\ pc = "gti_held"
        /\ caller = "user"
        /\ calls = <<>>
        /\ Records = 0
        /\ get_time_us = first_run_us[0]) =>
         /\ current_task = 0
         /\ ti'.status = "Running"
         /\ ti'.time = 0
         /\ \A k \in SyscallSpace : Count(ti', k) = 0]_vars

C11_Witness ==
    /\ pc = "gti_done"
    /\ caller = "user"
    /\ calls = <<>>
    /\ Records = 0
    /\ get_time_us = first_run_us[0]
    /\ get_time_ms >= 1
    /\ ti.status = "Running"
    /\ ti.time = 0

\* C12: run_first_task marks slot 0 Running, stamps its start_time with the
\* timer in milliseconds, leaves current_task at 0 and every other slot as it
\* was; its switch writes no slot's context (the outgoing state goes to the
\* placeholder), no switch ever restores from the placeholder, control stays
\* on a task's stack from then on and run_first_task's own panic is never
\* reached
C12_LaunchFirstTask ==
    [][/\ pc = "rft_held" =>
            /\ task_status'[0] = "Running"
            /\ start_time'[0] * 1000 <= get_time_us
            /\ get_time_us < start_time'[0] * 1000 + 1000
            /\ current_task' = 0 /\ current_task = 0
            /\ \A i \in Slots \ {0} :
                 /\ task_status'[i] = task_status[i]
                 /\ start_time'[i] = start_time[i]
            /\ UNCHANGED <<task_cx, syscall_times>>
       /\ pc = "rft_switch" =>
            /\ UNCHANGED <<task_status, task_cx, syscall_times, start_time, current_task>>
            /\ next_task_cx_ptr = 0
            /\ num_app >= 1 => (pc' = "user" /\ cpu' = 0)
       /\ pc' = "rnt_switch" => (next_task_cx_ptr' \in Slots /\ next_task_cx_ptr' # Boot)
       /\ pc' # "rft_unreachable"
       /\ (caller' = "user" /\ num_app >= 1) => cpu' \in InRange]_vars

C12_Witness ==
    /\ pc = "user"
    /\ num_app >= 2
    /\ Len(run_seq) >= 3
    /\ cpu = 0
    /\ start_time[0] = 1

\* C13: a slot's start_time is 0 until the slot is first marked Running, is
\* then the timer in milliseconds of that moment, and no later dispatch
\* changes it
C13_FirstRunTimestampKept ==
    \A i \in Slots :
        start_time[i] = IF first_run_us[i] = NotRun THEN 0
                        ELSE first_run_us[i] \div 1000

\* the positions of run_seq (dispatches) and of calls at which task i occurs
DispatchesOf(i) == {p \in 1 .. Len(run_seq) : run_seq[p] = i}
SuspendsOf(i) == {k \in 1 .. Len(calls) : calls[k] = <<"suspend", i>>}
\* the greatest element of a set of positions, 0 when it is empty
Latest(S) == IF S = {} THEN 0 ELSE CHOOSE p \in S : \A q \in S : q <= p

\* C14: the switch of run_next_task saves into the slot of the task that was
\* current before the dispatch and restores from next's slot, after next was
\* marked Running and made current_task; a slot's context is written only
\* when that task itself is switched away from; the task dispatched resumes
\* inside its own most recent suspend call, or at its initial entry if it
\* never ran
C14_SwitchSavesOutgoingRestoresNext ==
    [][/\ pc = "rnt_switch" =>
            /\ current_task_cx_ptr = cpu
            /\ current_task_cx_ptr = LastCall[2]
            /\ next_task_cx_ptr = next
            /\ current_task = next
            /\ task_status[next] = "Running"
            /\ cpu' = next
            /\ pc' = "user"
            /\ LET resumed == task_cx'[next]
               IN IF DispatchesOf(next) = {Len(run_seq)}
                  THEN resumed = goto_restore(next)
                  ELSE /\ resumed.at = "in_suspend"
                       /\ resumed.stack = next
                       /\ resumed.call = Latest(SuspendsOf(next))
                       /\ resumed.call > 0
       /\ \A i \in Slots :
            task_cx'[i] # task_cx[i] =>
              \/ pc = "start"
              \/ /\ pc = "rnt_switch"
                 /\ cpu = i
                 /\ task_cx'[i].stack = i
                 /\ task_cx'[i].call = Len(calls)]_vars

C14_Witness ==
    /\ pc = "user"
    /\ num_app >= 2
    /\ Len(calls) >= 3
    /\ cpu = 0
    /\ task_cx[0].at = "in_suspend"
    /\ task_cx[0].call = 1
    /\ task_cx[1].at = "in_suspend"
    /\ task_cx[1].call = 2

\* dispatches made since task i last stopped running (since the start when
\* it never ran)
Waited(i) == Len(run_seq) - Latest(DispatchesOf(i))

\* C15: when a task A is dispatched again, every other task that is Ready at
\* that moment (so has been Ready since it last ran) was dispatched after A's
\* previous dispatch; and a Ready task never waits through more than
\* num_app - 1 dispatches
C15_RoundRobinFairness ==
    /\ [](\A b \in InRange : task_status[b] = "Ready" => Waited(b) <= num_app - 1)
    /\ [][(pc = "rnt_held" /\ DispatchesOf(next) # {}) =>
            \A b \in InRange \ {next} :
               task_status[b] = "Ready" =>
                  Latest(DispatchesOf(b)) > Latest(DispatchesOf(next))]_vars

C15_Witness ==
    /\ pc = "rnt_switch"
    /\ num_app = MAX_APP_NUM
    /\ Len(run_seq) > num_app
    /\ run_seq[Len(run_seq)] = run_seq[1]
    /\ \A b \in InRange : task_status[b] # "Exited"

\* C16: get_current_task_info reports the current task's status and, for
\* every syscall id below MAX_SYSCALL_NUM, the number of
\* update_current_syscall_times calls with that id made while the task was
\* running when the id is tracked and 0 otherwise; the two mappings are
\* inverse bijections between the 5 tracked ids and 0..4; the function
\* returns 0 and writes nothing in the TaskManager
C16_InfoCountsPerSyscall ==
    /\ [](/\ \A k \in TrackedIds :
               /\ map_syscall_to_small_range(k) \in SmallRange
               /\ map_small_range_to_syscall(map_syscall_to_small_range(k)) = k
          /\ \A j \in SmallRange :
               /\ map_small_range_to_syscall(j) \in TrackedIds
               /\ map_syscall_to_small_range(map_small_range_to_syscall(j)) = j
          /\ Cardinality(TrackedIds) = TRACKED_NUM)
    /\ [][pc = "gti_held" =>
            /\ ti'.status = task_status[current_task]
            /\ \A k \in SyscallSpace :
                 Count(ti', k) = IF k \in TrackedIds THEN recorded[current_task][k]
                                 ELSE 0
            /\ ret' = 0
            /\ pc' = "gti_done"
            /\ UNCHANGED table]_vars
    /\ [][pc = "gti_done" => UNCHANGED table]_vars

C16_Witness ==
    /\ pc = "gti_done"
    /\ caller = "user"
    /\ Len(run_seq) >= 2
    /\ Count(ti, SYSCALL_YIELD) = 2
    /\ Count(ti, SYSCALL_EXIT) = 0
    /\ \E i \in InRange \ {current_task} : recorded[i][SYSCALL_EXIT] = 1

\* C17: update_syscall_num with an id outside the five tracked ones stops the
\* kernel for good (todo!()) and changes no counter, no status and not
\* current_task
C17_UntrackedAborts ==
    /\ [][(pc = "usn_held" /\ syscall_id \notin TrackedIds) =>
            /\ pc' = "abort"
            /\ UNCHANGED <<task_status, syscall_times, current_task, start_time,
                           task_cx, recorded>>]_vars
    /\ [][pc' = "abort" => (pc = "usn_held" /\ syscall_id \notin TrackedIds)]_vars
    /\ [][pc # "abort"]_vars

C17_Witness ==
    /\ pc = "abort"
    /\ syscall_id \in UntrackedIds
    /\ \E i \in InRange : \E k \in TrackedIds : recorded[i][k] >= 1
    /\ \A i \in InRange : \A k \in TrackedIds :
         syscall_times[i][map_syscall_to_small_range(k)] = recorded[i][k]

\* C18: suspend_current_and_run_next never ends in the "All applications
\* completed" panic; a task that yields while every other task is Exited is
\* found again, is marked Running again with current_task unchanged, and the
\* switch saves into and restores from its own slot
OthersExited == \A i \in InRange \ {current_task} : task_status[i] = "Exited"
C18_YieldNeverHalts ==
    /\ []((pc = "run_next" /\ calls # <<>> /\ LastCall[1] = "suspend") =>
            /\ next # None
            /\ OthersExited => next = current_task)
    /\ [](pc = "halt" => (calls # <<>> /\ LastCall[1] = "exit"))
    /\ [][(pc = "rnt_held" /\ LastCall[1] = "suspend" /\ OthersExited) =>
            /\ task_status'[current_task] = "Running"
            /\ current_task' = current_task
            /\ current_task_cx_ptr' = current_task
            /\ next_task_cx_ptr' = current_task]_vars
    /\ [][(pc = "rnt_switch" /\ current_task_cx_ptr = next_task_cx_ptr) =>
            /\ pc' = "user"
            /\ cpu' = cpu
            /\ task_status[cpu] = "Running"]_vars

C18_Witness ==
    /\ pc = "user"
    /\ num_app >= 2
    /\ Len(run_seq) >= 2
    /\ run_seq[Len(run_seq)] = run_seq[Len(run_seq) - 1]
    /\ LastCall[1] = "suspend"
    /\ OthersExited
    /\ task_status[current_task] = "Running"

\* C19: the kernel halts with "All applications completed" only when every
\* slot below num_app is Exited, and a slot at or above num_app stays UnInit
\* and is never the task dispatched
C19_HaltOnlyWhenAllExited ==
    /\ pc = "halt" => AllExited
    /\ \A i \in Slots : i >= num_app => task_status[i] = "UnInit"
    /\ run_seq # <<>> => current_task < num_app

\* the same for a kernel that has at least one application
C19_WithApplications == num_app >= 1 => C19_HaltOnlyWhenAllExited

\* run_first_task has marked its task Running
Launched == run_seq # <<>>
\* every application, whenever it runs, eventually calls
\* suspend_current_and_run_next or exit_current_and_run_next (MaxEvents
\* makes the calls of suspend_current_and_run_next finitely many)
TasksKeepCalling ==
    [](pc = "user" => <>(pc \in {"mark_suspended_held", "mark_exited_held"}))
EventuallyHalts == Launched ~> (pc = "halt" /\ AllExited)
NoStarvation ==
    \A i \in Slots :
        (Launched /\ i \in InRange /\ task_status[i] = "Ready")
            ~> (task_status[i] = "Running")

\* C20: if every application, whenever it runs, eventually yields or exits,
\* and yields only finitely often, then after the launch every task becomes
\* Exited and the kernel reaches the "All applications completed" halt, and
\* every Ready task becomes Running
C20_EveryTaskExitsAndHalts ==
    TasksKeepCalling => (EventuallyHalts /\ NoStarvation)

\* the same for a kernel that has at least one application
C20_WithApplications ==
    (num_app >= 1 /\ TasksKeepCalling) => (EventuallyHalts /\ NoStarvation)

====
